---- MODULE Spec2Model ----
(***************************************************************************)
(* A model of the branch resolution and push logic of Cresta-Open-Data:    *)
(* src/git_utils.py (free functions) and src/git_operations.py (class      *)
(* GitOperations).  Both drive the git command line tool; the repository   *)
(* (refs, HEAD, index) is the shared state and git is the environment.     *)
(*                                                                         *)
(* Text is modelled as a sequence of tokens (short strings), chosen so     *)
(* that every prefix, suffix and substring the Python code tests for falls *)
(* on a token boundary.  A branch name is such a sequence (<<"main">>,     *)
(* <<"origin", "/", "feature">>), a line of output is one, and the output  *)
(* of a command is a sequence of lines.  Python's None is <<>>.            *)
(***************************************************************************)
EXTENDS Integers, Sequences, FiniteSets, TLC

VARIABLES
    gitWorks,     \* FALSE: git cannot be spawned / no repository: every command fails
    seed,         \* the process's string hash seed: the iteration order of a set of str
    tip,          \* local branch -> commit (NoCommit: no such branch)
    rtip,         \* remote-tracking ref (origin/x, upstream/x) -> commit
    head,         \* HEAD: [kind, name, at]
    originHead,   \* target of refs/remotes/origin/HEAD, or None
    tracking,     \* local branches whose upstream is origin/<same name>
    worktree,     \* files with unstaged changes
    index,        \* files with staged changes
    op,           \* the operation in progress, "idle" when none
    pc,           \* the position in it
    arg,          \* its arguments [target, force, files]
    loc,          \* its local variables [target, available, alts, cur, files, first]
    ret,          \* its result, once pc = "done"
    log,          \* the git commands issued so far by the operation
    pre,          \* the repository as it was when the operation was called
    calls,        \* how many times in a row the operation has been called
    insp          \* what the inspector functions returned last

repoVars == <<gitWorks, seed, tip, rtip, head, originHead, tracking, worktree, index>>
progVars == <<op, pc, arg, loc, ret, log, pre, calls>>
vars == <<gitWorks, seed, tip, rtip, head, originHead, tracking, worktree, index,
          op, pc, arg, loc, ret, log, pre, calls, insp>>

----------------------------------------------------------------------------
(* Names *)

None == <<>>
main == <<"main">>
master == <<"master">>
develop == <<"develop">>
development == <<"development">>
feature == <<"feature">>
hotfix == <<"hotfix">>
originFeature == <<"origin", "/", "feature">>   \* a branch that is itself named origin/feature

\* Every branch name of the model, in the order git lists them.
NameOrder == <<develop, development, feature, hotfix, main, master, originFeature>>
AllNames == {NameOrder[i] : i \in 1..Len(NameOrder)}

OriginRef(n) == <<"origin", "/">> \o n
UpstreamRef(n) == <<"upstream", "/">> \o n
\* Every remote-tracking ref of the model, in the order git lists them.
RefOrder == <<OriginRef(develop), OriginRef(development), OriginRef(feature), OriginRef(hotfix),
              OriginRef(main), OriginRef(master), OriginRef(originFeature), UpstreamRef(main)>>
AllRefs == {RefOrder[i] : i \in 1..Len(RefOrder)}

NoCommit == <<"none", None>>
DetachedCommit == <<"X", None>>     \* a commit no branch points at

Local == {n \in AllNames : tip[n] # NoCommit}
RemoteRefs == {r \in AllRefs : rtip[r] # NoCommit}
Remote == {n \in AllNames : OriginRef(n) \in RemoteRefs}
Attached == head.kind = "branch"
HeadCommit == IF Attached THEN tip[head.name] ELSE head.at

----------------------------------------------------------------------------
(* Python str operations on token sequences *)

IsSpace(t) == t = " "

RECURSIVE LStrip(_)
LStrip(s) == IF s # <<>> /\ IsSpace(Head(s)) THEN LStrip(Tail(s)) ELSE s

RECURSIVE RStrip(_)
RStrip(s) == IF s # <<>> /\ IsSpace(s[Len(s)]) THEN RStrip(SubSeq(s, 1, Len(s) - 1)) ELSE s

\* str.strip()
Strip(s) == RStrip(LStrip(s))

\* str.startswith(p)
StartsWith(s, p) == Len(s) >= Len(p) /\ SubSeq(s, 1, Len(p)) = p

\* str.endswith(p)
EndsWith(s, p) == Len(s) >= Len(p) /\ SubSeq(s, Len(s) - Len(p) + 1, Len(s)) = p

\* The number of characters of a token.
TokLen(t) ==
    CASE t \in {"*", " ", "/", "("} -> 1
      [] t \in {"main", "HEAD", " -> "} -> 4
      [] t \in {"origin", "master", "hotfix"} -> 6
      [] t \in {"develop", "feature"} -> 7
      [] t = "upstream" -> 8
      [] t = "development" -> 11
      [] OTHER -> 13    \* "HEAD detached", "refs/remotes/" and longer: never sliced through

\* s[n:], for n on a token boundary of s.
RECURSIVE Slice(_, _)
Slice(s, n) == IF n <= 0 \/ s = <<>> THEN s ELSE Slice(Tail(s), n - TokLen(Head(s)))

\* str.replace(p, ""): every occurrence of p, left to right.
RECURSIVE Remove(_, _)
Remove(s, p) ==
    IF s = <<>> THEN <<>>
    ELSE IF StartsWith(s, p) THEN Remove(SubSeq(s, Len(p) + 1, Len(s)), p)
    ELSE <<Head(s)>> \o Remove(Tail(s), p)

\* p in s
Contains(s, p) == \E i \in 1..Len(s) : StartsWith(SubSeq(s, i, Len(s)), p)

\* s.split(p)[-1]: what follows the last occurrence of p (s itself when there is none).
RECURSIVE AfterLast(_, _)
AfterLast(s, p) ==
    IF \E i \in 2..Len(s) : StartsWith(SubSeq(s, i, Len(s)), p) THEN AfterLast(Tail(s), p)
    ELSE IF StartsWith(s, p) THEN SubSeq(s, Len(p) + 1, Len(s))
    ELSE s

(* Text of several lines: a sequence of lines. *)

\* The strip() of a whole output: leading space of the first line, trailing of the last.
StripText(t) ==
    IF t = <<>> THEN <<>>
    ELSE IF Len(t) = 1 THEN (IF Strip(t[1]) = <<>> THEN <<>> ELSE <<Strip(t[1])>>)
    ELSE <<LStrip(t[1])>> \o SubSeq(t, 2, Len(t) - 1) \o <<RStrip(t[Len(t)])>>

\* a + b for two texts: the last line of a continues with the first of b.
Concat(a, b) ==
    IF a = <<>> THEN b
    ELSE IF b = <<>> THEN a
    ELSE SubSeq(a, 1, Len(a) - 1) \o <<a[Len(a)] \o b[1]>> \o Tail(b)

\* text.split('\n'): the empty text splits into one empty line.
SplitLines(t) == IF t = <<>> THEN <<None>> ELSE t

\* x in list
InList(x, xs) == \E i \in 1..Len(xs) : xs[i] = x

Elems(xs) == {xs[i] : i \in 1..Len(xs)}

\* The iteration order of a set of str depends on the process's hash seed: under
\* seed 1 the entries come in HashOrder, under any other seed in its reverse.
HashOrder ==
    <<main, master, develop, development, feature, hotfix, originFeature,
      <<"(", "HEAD detached", " at X)">>, <<"(", "no branch, rebasing)">>,
      UpstreamRef(main)>>

HashRank(x) ==
    LET at == {i \in 1..Len(HashOrder) : HashOrder[i] = x}
        r == IF at = {} THEN 0 ELSE CHOOSE i \in at : TRUE
    IN IF seed = 1 THEN r ELSE 0 - r

\* list(set(xs))
RECURSIVE ListOfSet(_)
ListOfSet(S) ==
    IF S = {} THEN <<>>
    ELSE LET x == CHOOSE y \in S : \A z \in S : HashRank(y) <= HashRank(z)
         IN <<x>> \o ListOfSet(S \ {x})

----------------------------------------------------------------------------
(* git, the environment: what each query prints for the repository as it is *)

Line(prefix, n) == prefix \o n
\* The sequence of the members of S, in the order of `order`.
Listed(order, S) == SelectSeq(order, LAMBDA n : n \in S)

\* get_head_description(): how git names a HEAD that is on no branch.
HeadDescription ==
    IF head.kind = "detached" THEN <<"(", "HEAD detached", " at X)">>
    ELSE <<"(", "no branch, rebasing)">>

Failed == [ok |-> FALSE, stdout |-> <<>>, stderr |-> <<<<"fatal: ", "git failed">>>>]
Printed(t) == [ok |-> TRUE, stdout |-> t, stderr |-> <<>>]

\* git branch
GitBranch ==
    IF ~gitWorks THEN Failed
    ELSE LET mark(n) == IF Attached /\ head.name = n THEN Line(<<"*", " ">>, n)
                        ELSE Line(<<" ", " ">>, n)
             top == IF Attached THEN <<>> ELSE <<Line(<<"*", " ">>, HeadDescription)>>
             names == Listed(NameOrder, Local)
         IN Printed(top \o [i \in 1..Len(names) |-> mark(names[i])])

\* git branch -r
GitBranchR ==
    IF ~gitWorks THEN Failed
    ELSE LET ref(r) == Line(<<" ", " ">>, r)
             sym == IF originHead = None THEN <<>>
                    ELSE <<<<" ", " ", "origin", "/", "HEAD", " -> ">> \o OriginRef(originHead)>>
             refs == Listed(RefOrder, RemoteRefs)
         IN Printed(sym \o [i \in 1..Len(refs) |-> ref(refs[i])])

\* git branch --format=%(refname:short): a HEAD on no branch is listed too, by its
\* description.
GitBranchFormat ==
    IF ~gitWorks THEN Failed
    ELSE LET top == IF Attached THEN <<>> ELSE <<HeadDescription>>
         IN Printed(top \o Listed(NameOrder, Local))

\* git branch -r --format=%(refname:short)
GitBranchRFormat ==
    IF ~gitWorks THEN Failed
    ELSE LET sym == IF originHead = None THEN <<>> ELSE <<<<"origin", "/", "HEAD">>>>
         IN Printed(sym \o Listed(RefOrder, RemoteRefs))

\* git branch --show-current: the branch HEAD is on, born or not; nothing otherwise.
GitShowCurrent ==
    IF ~gitWorks THEN Failed
    ELSE Printed(IF Attached THEN <<head.name>> ELSE <<>>)

\* git symbolic-ref refs/remotes/origin/HEAD
GitSymbolicRef ==
    IF ~gitWorks \/ originHead = None THEN Failed
    ELSE Printed(<<<<"refs/remotes/">> \o OriginRef(originHead)>>)

\* git show-ref --verify --quiet refs/remotes/origin/<n>
GitShowRef(n) ==
    IF gitWorks /\ n \in Remote THEN Printed(<<>>) ELSE Failed

\* git status --porcelain
GitStatus == IF ~gitWorks THEN Failed ELSE Printed(<<>>)

----------------------------------------------------------------------------
(* The command runners *)

\* git_utils.run_git_command: (returncode == 0, stdout.strip() + stderr.strip())
run_git_command(r) ==
    [ok |-> r.ok, out |-> Concat(StripText(r.stdout), StripText(r.stderr))]

\* GitOperations.run_git_command: stdout.strip() on success, stderr.strip() otherwise
GitOps_run_git_command(r) ==
    [ok |-> r.ok, out |-> IF r.ok THEN StripText(r.stdout) ELSE StripText(r.stderr)]

----------------------------------------------------------------------------
(* src/git_utils.py: the inspector *)

\* One line of `git branch`, lines 50-57.
LocalEntry(raw) ==
    LET line == Strip(raw)
    IN IF line # <<>> /\ ~StartsWith(line, <<"*">>) THEN <<line>>
       ELSE IF StartsWith(line, <<"*", " ">>)
            THEN LET branch_name == Strip(Slice(line, 2))
                 IN IF ~StartsWith(branch_name, <<"(">>) THEN <<branch_name>> ELSE <<>>
            ELSE <<>>

\* One line of `git branch -r`, lines 63-69, given the branches collected so far.
RemoteEntry(raw, branches) ==
    LET line == Strip(raw)
    IN IF line # <<>> /\ ~StartsWith(line, <<"origin", "/", "HEAD">>)
          /\ StartsWith(line, <<"origin", "/">>)
       THEN LET branch_name == Slice(line, 7)
            IN IF ~InList(branch_name, branches) THEN <<branch_name>> ELSE <<>>
       ELSE <<>>

RECURSIVE CollectLocal(_)
CollectLocal(lines) ==
    IF lines = <<>> THEN <<>> ELSE LocalEntry(Head(lines)) \o CollectLocal(Tail(lines))

RECURSIVE CollectRemote(_, _)
CollectRemote(lines, branches) ==
    IF lines = <<>> THEN branches
    ELSE CollectRemote(Tail(lines), branches \o RemoteEntry(Head(lines), branches))

\* The list `branches` of get_available_branches before its last line.
BranchesCollected ==
    LET l == run_git_command(GitBranch)
        r == run_git_command(GitBranchR)
        locals == IF l.ok THEN CollectLocal(SplitLines(l.out)) ELSE <<>>
    IN IF r.ok THEN CollectRemote(SplitLines(r.out), locals) ELSE locals

\* get_available_branches(): list(set(branches))
get_available_branches == ListOfSet(Elems(BranchesCollected))

\* is_detached_head()
is_detached_head ==
    LET r == run_git_command(GitBranch)
        lines == SplitLines(r.out)
    IN r.ok /\ \E i \in 1..Len(lines) :
                  StartsWith(Strip(lines[i]), <<"*", " ", "(", "HEAD detached">>)

\* A variant that tries master before main.
default_candidates_master_first == <<master, main, develop, development>>

\* line 104
default_candidates == <<main, master, develop, development>>

\* The first of `candidates` that is in `available`; None when none is.
RECURSIVE FirstCandidate(_, _)
FirstCandidate(candidates, available) ==
    IF candidates = <<>> THEN None
    ELSE IF InList(Head(candidates), available) THEN Head(candidates)
    ELSE FirstCandidate(Tail(candidates), available)

\* get_default_branch(), lines 101-115: what follows the origin/HEAD query.
DefaultFromAvailable(available) ==
    LET c == FirstCandidate(default_candidates, available)
    IN IF c # None THEN c
       ELSE IF available # <<>> THEN available[1]
       ELSE None

\* get_default_branch()
get_default_branch ==
    LET r == run_git_command(GitSymbolicRef)
        output == IF r.out = <<>> THEN <<>> ELSE r.out[1]
        marker == <<"refs/remotes/", "origin", "/">>
    IN IF r.ok /\ Contains(output, marker) THEN Strip(AfterLast(output, marker))
       ELSE DefaultFromAvailable(get_available_branches)

----------------------------------------------------------------------------
(* src/git_operations.py: the inspector *)

\* get_current_branch()
GitOps_get_current_branch ==
    LET r == GitOps_run_git_command(GitShowCurrent)
    IN IF r.ok /\ r.out # <<>> THEN r.out[1] ELSE None

\* is_detached_head()
GitOps_is_detached_head == GitOps_get_current_branch = None

\* [branch.strip() for branch in output.split('\n') if branch.strip()]
RECURSIVE StrippedLines(_)
StrippedLines(lines) ==
    IF lines = <<>> THEN <<>>
    ELSE (IF Strip(Head(lines)) # <<>> THEN <<Strip(Head(lines))>> ELSE <<>>)
         \o StrippedLines(Tail(lines))

\* [branch.strip().replace('origin/', '') ... if branch.strip() and not
\*  branch.strip().endswith('/HEAD')]
RECURSIVE StrippedRemotes(_)
StrippedRemotes(lines) ==
    IF lines = <<>> THEN <<>>
    ELSE (IF Strip(Head(lines)) # <<>> /\ ~EndsWith(Strip(Head(lines)), <<"/", "HEAD">>)
          THEN <<Remove(Strip(Head(lines)), <<"origin", "/">>)>> ELSE <<>>)
         \o StrippedRemotes(Tail(lines))

\* get_available_branches(): (local_branches, remote_branches)
GitOps_get_available_branches ==
    LET l == GitOps_run_git_command(GitBranchFormat)
        r == GitOps_run_git_command(GitBranchRFormat)
    IN [local |-> IF l.ok THEN StrippedLines(SplitLines(l.out)) ELSE <<>>,
        remote |-> IF r.ok THEN StrippedRemotes(SplitLines(r.out)) ELSE <<>>]

priority_branches == <<main, master, develop>>

\* find_best_branch(), lines 213-229: what follows the fetch.
GitOps_find_best_branch ==
    LET b == GitOps_get_available_branches
        all_available_branches == ListOfSet(Elems(b.local \o b.remote))
        c == FirstCandidate(priority_branches, all_available_branches)
    IN IF c # None THEN c
       ELSE IF all_available_branches # <<>> THEN all_available_branches[1]
       ELSE None

----------------------------------------------------------------------------
(* git, the environment: what each command that changes the repository does. *)
(* `accept` is git's own verdict where the refs alone do not decide it: a    *)
(* checkout that would overwrite local changes, a ref name git rejects, a    *)
(* locked ref, a hook, the network.                                          *)

\* One entry of the log: the command, its argument, whether it succeeded.
Cmd(c, a, ok) == [cmd |-> c, a |-> a, ok |-> ok]

Repo == [tip |-> tip, rtip |-> rtip, head |-> head, tracking |-> tracking,
         worktree |-> worktree, index |-> index]

OnBranch(b) == [kind |-> "branch", name |-> b, at |-> NoCommit]

\* git checkout <b>: a local branch; or, when there is none, the one remote-tracking
\* branch of that name, of which git makes a local branch that tracks it.  Checking
\* out the branch HEAD is already on always succeeds.
GitCheckout(b, accept) ==
    IF gitWorks /\ b \in Local /\ (accept \/ (Attached /\ head.name = b))
    THEN [ok |-> TRUE, repo |-> [Repo EXCEPT !.head = OnBranch(b)]]
    ELSE IF gitWorks /\ accept /\ b \in Remote \ Local /\ UpstreamRef(b) \notin RemoteRefs
    THEN [ok |-> TRUE,
          repo |-> [Repo EXCEPT !.head = OnBranch(b),
                                !.tip = [tip EXCEPT ![b] = rtip[OriginRef(b)]],
                                !.tracking = tracking \cup {b}]]
    ELSE [ok |-> FALSE, repo |-> Repo]

\* git checkout -b <b> origin/<b>
GitCheckoutTrack(b, accept) ==
    IF gitWorks /\ accept /\ b \in Remote \ Local
    THEN [ok |-> TRUE,
          repo |-> [Repo EXCEPT !.head = OnBranch(b),
                                !.tip = [tip EXCEPT ![b] = rtip[OriginRef(b)]],
                                !.tracking = tracking \cup {b}]]
    ELSE [ok |-> FALSE, repo |-> Repo]

\* git checkout -b <b>: a new branch at HEAD's commit (on an unborn branch HEAD just
\* moves to the new, still unborn, name).
GitCheckoutNew(b, accept) ==
    IF gitWorks /\ accept /\ b \in AllNames \ Local
    THEN [ok |-> TRUE,
          repo |-> [Repo EXCEPT !.head = OnBranch(b),
                                !.tip = [tip EXCEPT ![b] = HeadCommit]]]
    ELSE [ok |-> FALSE, repo |-> Repo]

\* git fetch origin <b>:<b>: a local branch from the remote one; never into the
\* branch that is checked out.
GitFetchBranch(b, accept) ==
    IF gitWorks /\ accept /\ b \in Remote \ Local /\ ~(Attached /\ head.name = b)
    THEN [ok |-> TRUE, repo |-> [Repo EXCEPT !.tip = [tip EXCEPT ![b] = rtip[OriginRef(b)]]]]
    ELSE [ok |-> FALSE, repo |-> Repo]

\* git add <f>
GitAdd(f, accept) ==
    IF gitWorks /\ accept
    THEN [ok |-> TRUE, repo |-> [Repo EXCEPT !.index = index \cup ({f} \cap worktree),
                                             !.worktree = worktree \ {f}]]
    ELSE [ok |-> FALSE, repo |-> Repo]

\* git add .
GitAddAll(accept) ==
    IF gitWorks /\ accept
    THEN [ok |-> TRUE, repo |-> [Repo EXCEPT !.index = index \cup worktree, !.worktree = {}]]
    ELSE [ok |-> FALSE, repo |-> Repo]

\* git diff --cached --quiet: status 0 exactly when nothing is staged.
GitDiffCachedQuiet == IF gitWorks /\ index = {} THEN Printed(<<>>) ELSE Failed

\* The commit the n-th call of an operation makes.
NewCommit(n) == <<"C", <<"call", IF n = 1 THEN "1" ELSE IF n = 2 THEN "2" ELSE "n">>>>

\* git commit -m <message>: fails when nothing is staged.
GitCommit(accept) ==
    IF gitWorks /\ accept /\ index # {}
    THEN [ok |-> TRUE,
          repo |-> [Repo EXCEPT !.index = {},
                                !.tip = IF Attached THEN [tip EXCEPT ![head.name] = NewCommit(calls)]
                                        ELSE tip,
                                !.head = IF Attached THEN head
                                         ELSE [head EXCEPT !.at = NewCommit(calls)]]]
    ELSE [ok |-> FALSE, repo |-> Repo]

\* What git push can answer.
PushOutcomes == {"pushed", "no upstream", "rejected"}

PushText(outcome) ==
    IF outcome = "no upstream"
    THEN <<<<"fatal: The current branch has ", "no upstream branch">>,
           <<" ", " ", "git push --", "set-upstream", " origin">>>>
    ELSE <<<<"error: failed to push some refs">>>>

\* git push [--force | --set-upstream | -u] origin <b>
GitPush(b, setUpstream, outcome) ==
    IF gitWorks /\ outcome = "pushed" /\ b \in Local
    THEN [ok |-> TRUE, stdout |-> <<>>, stderr |-> <<>>,
          repo |-> [Repo EXCEPT !.rtip = [rtip EXCEPT ![OriginRef(b)] = tip[b]],
                                !.tracking = IF setUpstream THEN tracking \cup {b} ELSE tracking]]
    ELSE [ok |-> FALSE, stdout |-> <<>>, stderr |-> PushText(outcome), repo |-> Repo]

SetRepo(r) ==
    /\ tip' = r.tip
    /\ rtip' = r.rtip
    /\ head' = r.head
    /\ tracking' = r.tracking
    /\ worktree' = r.worktree
    /\ index' = r.index
    /\ UNCHANGED <<gitWorks, seed, originHead>>

----------------------------------------------------------------------------
(* The operations.  Each step runs the code from one git command that may    *)
(* change the repository (or one inspector call) up to the next.             *)

NoLoc == [target |-> None, available |-> <<>>, alts |-> <<>>, cur |-> None, files |-> <<>>,
          first |-> "none"]     \* first: what git answered to the first push
NoArg == [target |-> None, force |-> FALSE, files |-> <<>>]
NoInsp == [by |-> "none", head |-> OnBranch(None), detached |-> FALSE, current |-> None,
           available |-> <<>>, remote |-> <<>>, default |-> None]
Snapshot == [head |-> head, tip |-> tip, rtip |-> rtip, index |-> index, worktree |-> worktree]

Idle ==
    /\ op = "idle" /\ pc = "idle" /\ arg = NoArg /\ loc = NoLoc /\ ret = FALSE
    /\ log = <<>> /\ calls = 0 /\ insp = NoInsp
    /\ pre = Snapshot

Call(o, a, start) ==
    /\ op' = o /\ arg' = a /\ pc' = start
    /\ loc' = [NoLoc EXCEPT !.target = a.target, !.files = a.files]
    /\ ret' = FALSE /\ log' = <<>> /\ pre' = Snapshot
    /\ UNCHANGED <<repoVars, insp>>

Finish(r) == pc' = "done" /\ ret' = r

(* git_utils.switch_to_branch *)

AvailableLog == <<Cmd("branch", None, gitWorks), Cmd("branch -r", None, gitWorks)>>
DefaultLog ==
    <<Cmd("symbolic-ref", None, run_git_command(GitSymbolicRef).ok)>>
    \o (IF run_git_command(GitSymbolicRef).ok THEN <<>> ELSE AvailableLog)

\* A variant in which execute_git_push goes on whatever switch_to_branch returned.
SwitchReturns_ignored(r) ==
    IF op = "switch" THEN Finish(r)
    ELSE pc' = "up_current" /\ ret' = ret

\* switch_to_branch returns r: to its caller when execute_git_push called it (lines
\* 228-230 and 240-241: the push goes on only after a True).
SwitchReturns(r) ==
    IF op = "switch" THEN Finish(r)
    ELSE IF r THEN pc' = "up_current" /\ ret' = ret
    ELSE Finish(FALSE)

\* lines 162-168
sw_begin ==
    /\ pc = "sw_begin"
    /\ IF loc.target = None
       THEN /\ loc' = [loc EXCEPT !.target = get_default_branch]
            /\ log' = log \o DefaultLog
            /\ IF get_default_branch = None THEN SwitchReturns(FALSE)
               ELSE pc' = "sw_checkout" /\ ret' = ret
       ELSE /\ pc' = "sw_checkout"
            /\ UNCHANGED <<loc, log, ret>>
    /\ UNCHANGED <<repoVars, op, arg, pre, calls, insp>>

\* A variant that does not return after a successful checkout.
sw_checkout_goes_on ==
    /\ pc = "sw_checkout"
    /\ \E accept \in BOOLEAN :
         LET r == GitCheckout(loc.target, accept)
         IN /\ SetRepo(r.repo)
            /\ log' = Append(log, Cmd("checkout", loc.target, r.ok))
            /\ pc' = "sw_available" /\ ret' = ret
    /\ UNCHANGED <<op, arg, loc, pre, calls, insp>>

\* lines 170-176
sw_checkout ==
    /\ pc = "sw_checkout"
    /\ \E accept \in BOOLEAN :
         LET r == GitCheckout(loc.target, accept)
         IN /\ SetRepo(r.repo)
            /\ log' = Append(log, Cmd("checkout", loc.target, r.ok))
            /\ IF r.ok THEN SwitchReturns(TRUE) ELSE pc' = "sw_available" /\ ret' = ret
    /\ UNCHANGED <<op, arg, loc, pre, calls, insp>>

\* A variant with no alternative to try.
alternatives_none(target_branch) == <<>>

\* lines 189-190
alternatives(target_branch) ==
    IF ~InList(target_branch, <<main, master>>) THEN <<main, master>> ELSE <<master, main>>

\* lines 178-183 (and 199-200 when the branch is among the available ones)
sw_available ==
    /\ pc = "sw_available"
    /\ loc' = [loc EXCEPT !.available = get_available_branches]
    /\ log' = log \o AvailableLog
    /\ IF ~InList(loc.target, get_available_branches)
       THEN pc' = "sw_create" /\ ret' = ret
       ELSE SwitchReturns(FALSE)
    /\ UNCHANGED <<repoVars, op, arg, pre, calls, insp>>

\* A variant that takes the branch from origin when show-ref does not find it there.
create_branch_from_remote_inverted(b, accept) ==
    IF ~run_git_command(GitShowRef(b)).ok
    THEN [r |-> GitCheckoutTrack(b, accept),
          log |-> <<Cmd("show-ref", b, FALSE), Cmd("checkout -b origin", b, GitCheckoutTrack(b, accept).ok)>>]
    ELSE [r |-> GitCheckoutNew(b, accept),
          log |-> <<Cmd("show-ref", b, TRUE), Cmd("checkout -b", b, GitCheckoutNew(b, accept).ok)>>]

\* create_branch_from_remote(b), lines 128-148
create_branch_from_remote(b, accept) ==
    IF run_git_command(GitShowRef(b)).ok
    THEN [r |-> GitCheckoutTrack(b, accept),
          log |-> <<Cmd("show-ref", b, TRUE), Cmd("checkout -b origin", b, GitCheckoutTrack(b, accept).ok)>>]
    ELSE [r |-> GitCheckoutNew(b, accept),
          log |-> <<Cmd("show-ref", b, FALSE), Cmd("checkout -b", b, GitCheckoutNew(b, accept).ok)>>]

\* A variant that tries the alternatives even after it created the branch.
sw_create_goes_on ==
    /\ pc = "sw_create"
    /\ \E accept \in BOOLEAN :
         LET c == create_branch_from_remote(loc.target, accept)
         IN /\ SetRepo(c.r.repo)
            /\ log' = log \o c.log
            /\ pc' = "sw_alt" /\ ret' = ret
            /\ loc' = [loc EXCEPT !.alts = alternatives(loc.target)]
    /\ UNCHANGED <<op, arg, pre, calls, insp>>

\* lines 184-188
sw_create ==
    /\ pc = "sw_create"
    /\ \E accept \in BOOLEAN :
         LET c == create_branch_from_remote(loc.target, accept)
         IN /\ SetRepo(c.r.repo)
            /\ log' = log \o c.log
            /\ IF c.r.ok THEN SwitchReturns(TRUE) /\ loc' = loc
               ELSE /\ pc' = "sw_alt" /\ ret' = ret
                    /\ loc' = [loc EXCEPT !.alts = alternatives(loc.target)]
    /\ UNCHANGED <<op, arg, pre, calls, insp>>

\* A variant that reports success after an alternative, accepted or not.
sw_alt_reports_success ==
    /\ pc = "sw_alt"
    /\ IF loc.alts = <<>>
       THEN /\ SwitchReturns(FALSE)
            /\ UNCHANGED <<repoVars, loc, log>>
       ELSE \E accept \in BOOLEAN :
              LET alt_branch == Head(loc.alts)
                  known == InList(alt_branch, loc.available)
                  c == create_branch_from_remote(alt_branch, accept)
                  r == IF known THEN GitCheckout(alt_branch, accept) ELSE c.r
              IN /\ SetRepo(r.repo)
                 /\ log' = log \o (IF known THEN <<Cmd("checkout", alt_branch, r.ok)>> ELSE c.log)
                 /\ loc' = [loc EXCEPT !.alts = Tail(loc.alts)]
                 /\ SwitchReturns(TRUE)
    /\ UNCHANGED <<op, arg, pre, calls, insp>>

\* lines 189-200: one round of the loop over the alternatives, or its end
sw_alt ==
    /\ pc = "sw_alt"
    /\ IF loc.alts = <<>>
       THEN /\ SwitchReturns(FALSE)
            /\ UNCHANGED <<repoVars, loc, log>>
       ELSE \E accept \in BOOLEAN :
              LET alt_branch == Head(loc.alts)
                  known == InList(alt_branch, loc.available)
                  c == create_branch_from_remote(alt_branch, accept)
                  r == IF known THEN GitCheckout(alt_branch, accept) ELSE c.r
              IN /\ SetRepo(r.repo)
                 /\ log' = log \o (IF known THEN <<Cmd("checkout", alt_branch, r.ok)>> ELSE c.log)
                 /\ loc' = [loc EXCEPT !.alts = Tail(loc.alts)]
                 /\ IF r.ok THEN SwitchReturns(TRUE) ELSE pc' = "sw_alt" /\ ret' = ret
    /\ UNCHANGED <<op, arg, pre, calls, insp>>

(* git_utils.execute_git_push *)

Truthy(x) == x # None

\* A variant that switches to the branch asked for even when HEAD is on a branch.
up_begin_switches_anyway ==
    /\ pc = "up_begin"
    /\ LET status == run_git_command(GitStatus)
           current == run_git_command(GitShowCurrent)
       IN IF ~status.ok
          THEN /\ log' = Append(log, Cmd("status", None, FALSE))
               /\ Finish(FALSE)
          ELSE IF is_detached_head
          THEN /\ log' = log \o <<Cmd("status", None, TRUE), Cmd("branch", None, TRUE)>>
               /\ pc' = "sw_begin" /\ ret' = ret
          ELSE /\ log' = log \o <<Cmd("status", None, TRUE), Cmd("branch", None, TRUE),
                                  Cmd("branch --show-current", None, current.ok)>>
               /\ ret' = ret
               /\ IF Truthy(arg.target) THEN pc' = "sw_begin"
                  ELSE pc' = "up_current"
    /\ UNCHANGED <<repoVars, op, arg, loc, pre, calls, insp>>

\* lines 217-241, up to a call of switch_to_branch
up_begin ==
    /\ pc = "up_begin"
    /\ LET status == run_git_command(GitStatus)
           current == run_git_command(GitShowCurrent)
       IN IF ~status.ok
          THEN /\ log' = Append(log, Cmd("status", None, FALSE))
               /\ Finish(FALSE)
          ELSE IF is_detached_head
          THEN /\ log' = log \o <<Cmd("status", None, TRUE), Cmd("branch", None, TRUE)>>
               /\ pc' = "sw_begin" /\ ret' = ret
          ELSE /\ log' = log \o <<Cmd("status", None, TRUE), Cmd("branch", None, TRUE),
                                  Cmd("branch --show-current", None, current.ok)>>
               /\ ret' = ret
               /\ IF current.ok /\ Truthy(current.out) THEN pc' = "up_current"
                  ELSE IF Truthy(arg.target) THEN pc' = "sw_begin"
                  ELSE pc' = "up_current"
    /\ UNCHANGED <<repoVars, op, arg, loc, pre, calls, insp>>

\* A variant that takes the branch asked for as the branch to push.
up_current_trusts_target ==
    /\ pc = "up_current"
    /\ LET current == run_git_command(GitShowCurrent)
       IN /\ log' = Append(log, Cmd("branch --show-current", None, current.ok))
          /\ IF ~current.ok \/ ~Truthy(current.out)
             THEN Finish(FALSE) /\ loc' = loc
             ELSE /\ pc' = "up_push" /\ ret' = ret
                  /\ loc' = [loc EXCEPT !.cur = IF Truthy(arg.target) THEN arg.target
                                                ELSE current.out[1]]
    /\ UNCHANGED <<repoVars, op, arg, pre, calls, insp>>

\* lines 243-257
up_current ==
    /\ pc = "up_current"
    /\ LET current == run_git_command(GitShowCurrent)
       IN /\ log' = Append(log, Cmd("branch --show-current", None, current.ok))
          /\ IF ~current.ok \/ ~Truthy(current.out)
             THEN Finish(FALSE) /\ loc' = loc
             ELSE pc' = "up_push" /\ ret' = ret /\ loc' = [loc EXCEPT !.cur = current.out[1]]
    /\ UNCHANGED <<repoVars, op, arg, pre, calls, insp>>

\* line 268: the test on output.lower()
MentionsUpstream(output) ==
    \E i \in 1..Len(output) :
        \/ Contains(output[i], <<"no upstream branch">>)
        \/ Contains(output[i], <<"set-upstream">>)

\* A variant whose first push never carries --force.
up_push_never_forces ==
    /\ pc = "up_push"
    /\ \E outcome \in PushOutcomes :
         LET g == GitPush(loc.cur, FALSE, outcome)
             r == run_git_command(g)
         IN /\ SetRepo(g.repo)
            /\ log' = Append(log, Cmd("push", loc.cur, g.ok))
            /\ loc' = [loc EXCEPT !.first = outcome]
            /\ IF r.ok THEN Finish(TRUE)
               ELSE IF MentionsUpstream(r.out) THEN pc' = "up_retry" /\ ret' = ret
               ELSE Finish(FALSE)
    /\ UNCHANGED <<op, arg, pre, calls, insp>>

\* lines 259-268
up_push ==
    /\ pc = "up_push"
    /\ \E outcome \in PushOutcomes :
         LET g == GitPush(loc.cur, FALSE, outcome)
             r == run_git_command(g)
         IN /\ SetRepo(g.repo)
            /\ log' = Append(log, Cmd(IF arg.force THEN "push --force" ELSE "push", loc.cur, g.ok))
            /\ loc' = [loc EXCEPT !.first = outcome]
            /\ IF r.ok THEN Finish(TRUE)
               ELSE IF MentionsUpstream(r.out) THEN pc' = "up_retry" /\ ret' = ret
               ELSE Finish(FALSE)
    /\ UNCHANGED <<op, arg, pre, calls, insp>>

\* A variant that sets the upstream a second time when the first retry fails.
up_retry_again ==
    /\ pc = "up_retry"
    /\ \E outcome \in PushOutcomes :
         LET g == GitPush(loc.cur, TRUE, outcome)
         IN /\ SetRepo(g.repo)
            /\ log' = Append(log, Cmd("push --set-upstream", loc.cur, g.ok))
            /\ IF ~g.ok /\ log[Len(log)].cmd # "push --set-upstream"
               THEN pc' = "up_retry" /\ ret' = ret
               ELSE Finish(run_git_command(g).ok)
    /\ UNCHANGED <<op, arg, loc, pre, calls, insp>>

\* lines 269-278
up_retry ==
    /\ pc = "up_retry"
    /\ \E outcome \in PushOutcomes :
         LET g == GitPush(loc.cur, TRUE, outcome)
         IN /\ SetRepo(g.repo)
            /\ log' = Append(log, Cmd("push --set-upstream", loc.cur, g.ok))
            /\ Finish(run_git_command(g).ok)
    /\ UNCHANGED <<op, arg, loc, pre, calls, insp>>

(* GitOperations.execute_git_push *)

\* lines 271-278
op_begin ==
    /\ pc = "op_begin"
    /\ log' = Append(log, Cmd("branch --show-current", None, gitWorks))
    /\ loc' = [loc EXCEPT !.cur = GitOps_get_current_branch]
    /\ pc' = IF Truthy(GitOps_get_current_branch) THEN "op_stage" ELSE "op_find"
    /\ UNCHANGED <<repoVars, op, arg, ret, pre, calls, insp>>

FormatLog == <<Cmd("branch --format", None, gitWorks), Cmd("branch -r --format", None, gitWorks)>>

\* lines 280-285: find_best_branch(), which fetches first
op_find ==
    /\ pc = "op_find"
    /\ log' = log \o <<Cmd("fetch", None, gitWorks)>> \o FormatLog
    /\ IF ~Truthy(GitOps_find_best_branch)
       THEN loc' = [loc EXCEPT !.target = main] /\ pc' = "op_create_main"
       ELSE loc' = [loc EXCEPT !.target = GitOps_find_best_branch] /\ pc' = "op_ensure"
    /\ UNCHANGED <<repoVars, op, arg, ret, pre, calls, insp>>

\* lines 286-287 and 297: create_new_branch("main")
op_create_main ==
    /\ pc = "op_create_main"
    /\ \E accept \in BOOLEAN :
         LET r == GitCheckoutNew(loc.target, accept)
         IN /\ SetRepo(r.repo)
            /\ log' = Append(log, Cmd("checkout -b", loc.target, r.ok))
            /\ IF r.ok THEN pc' = "op_stage" /\ ret' = ret /\ loc' = [loc EXCEPT !.cur = loc.target]
               ELSE Finish(FALSE) /\ loc' = loc
    /\ UNCHANGED <<op, arg, pre, calls, insp>>

\* ensure_branch_available(b), lines 241-255
GitOps_ensure_branch_available(b, accept) ==
    LET a == GitOps_get_available_branches
    IN IF InList(b, a.local) THEN [r |-> [ok |-> TRUE, repo |-> Repo], log |-> FormatLog]
       ELSE IF InList(b, a.remote)
       THEN [r |-> GitFetchBranch(b, accept), log |-> Append(FormatLog, Cmd("fetch branch", b, GitFetchBranch(b, accept).ok))]
       ELSE [r |-> GitCheckoutNew(b, accept), log |-> Append(FormatLog, Cmd("checkout -b", b, GitCheckoutNew(b, accept).ok))]

\* lines 289-291
op_ensure ==
    /\ pc = "op_ensure"
    /\ \E accept \in BOOLEAN :
         LET e == GitOps_ensure_branch_available(loc.target, accept)
         IN /\ SetRepo(e.r.repo)
            /\ log' = log \o e.log
            /\ IF e.r.ok THEN pc' = "op_switch" /\ ret' = ret ELSE Finish(FALSE)
    /\ UNCHANGED <<op, arg, loc, pre, calls, insp>>

\* lines 293-297: switch_to_branch(target_branch)
op_switch ==
    /\ pc = "op_switch"
    /\ \E accept \in BOOLEAN :
         LET r == GitCheckout(loc.target, accept)
         IN /\ SetRepo(r.repo)
            /\ log' = Append(log, Cmd("checkout", loc.target, r.ok))
            /\ IF r.ok THEN pc' = "op_stage" /\ ret' = ret /\ loc' = [loc EXCEPT !.cur = loc.target]
               ELSE Finish(FALSE) /\ loc' = loc
    /\ UNCHANGED <<op, arg, pre, calls, insp>>

\* A variant that goes on to the next file after a failed `git add`.
op_stage_goes_on ==
    /\ pc = "op_stage"
    /\ \E accept \in BOOLEAN :
         LET all == arg.files = <<>>
             r == IF all THEN GitAddAll(accept) ELSE GitAdd(Head(loc.files), accept)
         IN /\ SetRepo(r.repo)
            /\ log' = Append(log, Cmd("add", IF all THEN <<".">> ELSE Head(loc.files), r.ok))
            /\ IF all \/ Tail(loc.files) = <<>>
               THEN pc' = "op_diff" /\ ret' = ret /\ loc' = [loc EXCEPT !.files = <<>>]
               ELSE pc' = "op_stage" /\ ret' = ret /\ loc' = [loc EXCEPT !.files = Tail(loc.files)]
    /\ UNCHANGED <<op, arg, pre, calls, insp>>

\* lines 299-310: one `git add`
op_stage ==
    /\ pc = "op_stage"
    /\ \E accept \in BOOLEAN :
         LET all == arg.files = <<>>
             r == IF all THEN GitAddAll(accept) ELSE GitAdd(Head(loc.files), accept)
         IN /\ SetRepo(r.repo)
            /\ log' = Append(log, Cmd("add", IF all THEN <<".">> ELSE Head(loc.files), r.ok))
            /\ IF ~r.ok THEN Finish(FALSE) /\ loc' = loc
               ELSE IF all \/ Tail(loc.files) = <<>>
               THEN pc' = "op_diff" /\ ret' = ret /\ loc' = [loc EXCEPT !.files = <<>>]
               ELSE pc' = "op_stage" /\ ret' = ret /\ loc' = [loc EXCEPT !.files = Tail(loc.files)]
    /\ UNCHANGED <<op, arg, pre, calls, insp>>

\* A variant that never finds the index empty.
NothingToCommit_never(r) == FALSE

\* line 314: `if success`, nothing to commit
NothingToCommit(r) == r.ok

\* lines 312-316
op_diff ==
    /\ pc = "op_diff"
    /\ log' = Append(log, Cmd("diff --cached --quiet", None, GitDiffCachedQuiet.ok))
    /\ IF NothingToCommit(GitOps_run_git_command(GitDiffCachedQuiet)) THEN Finish(TRUE)
       ELSE pc' = "op_commit" /\ ret' = ret
    /\ UNCHANGED <<repoVars, op, arg, loc, pre, calls, insp>>

\* A variant that reads the current branch again once it has committed.
op_commit_rereads ==
    /\ pc = "op_commit"
    /\ \E accept \in BOOLEAN :
         LET r == GitCommit(accept)
         IN /\ SetRepo(r.repo)
            /\ log' = Append(log, Cmd("commit", None, r.ok))
            /\ loc' = [loc EXCEPT !.cur = GitOps_get_current_branch]
            /\ IF r.ok THEN pc' = "op_push" /\ ret' = ret ELSE Finish(FALSE)
    /\ UNCHANGED <<op, arg, pre, calls, insp>>

\* lines 318-325
op_commit ==
    /\ pc = "op_commit"
    /\ \E accept \in BOOLEAN :
         LET r == GitCommit(accept)
         IN /\ SetRepo(r.repo)
            /\ log' = Append(log, Cmd("commit", None, r.ok))
            /\ IF r.ok THEN pc' = "op_push" /\ ret' = ret ELSE Finish(FALSE)
    /\ UNCHANGED <<op, arg, loc, pre, calls, insp>>

\* lines 327-330: whether the failed first push is tried again
GitOps_retries(r) == ~r.ok

\* lines 327-340, the first push
op_push ==
    /\ pc = "op_push"
    /\ \E outcome \in PushOutcomes :
         LET g == GitPush(loc.cur, FALSE, outcome)
             r == GitOps_run_git_command(g)
         IN /\ SetRepo(g.repo)
            /\ log' = Append(log, Cmd("push", loc.cur, g.ok))
            /\ loc' = [loc EXCEPT !.first = outcome]
            /\ IF GitOps_retries(r) THEN pc' = "op_retry" /\ ret' = ret
               ELSE Finish(r.ok)
    /\ UNCHANGED <<op, arg, pre, calls, insp>>

\* A variant that takes the commit back when the second push fails too.
op_retry_resets ==
    /\ pc = "op_retry"
    /\ \E outcome \in PushOutcomes :
         LET g == GitPush(loc.cur, TRUE, outcome)
         IN /\ SetRepo(IF g.ok THEN g.repo ELSE [g.repo EXCEPT !.tip = pre.tip])
            /\ log' = Append(log, Cmd("push -u", loc.cur, g.ok))
            /\ Finish(GitOps_run_git_command(g).ok)
    /\ UNCHANGED <<op, arg, loc, pre, calls, insp>>

\* lines 331-340, the second push
op_retry ==
    /\ pc = "op_retry"
    /\ \E outcome \in PushOutcomes :
         LET g == GitPush(loc.cur, TRUE, outcome)
         IN /\ SetRepo(g.repo)
            /\ log' = Append(log, Cmd("push -u", loc.cur, g.ok))
            /\ Finish(GitOps_run_git_command(g).ok)
    /\ UNCHANGED <<op, arg, loc, pre, calls, insp>>

(* The inspectors, as the test scripts and git_utils.main() call them *)

\* test_git_utils.test_current_repository / test_branch_switching
Inspect ==
    /\ op = "idle"
    /\ LET current == run_git_command(GitShowCurrent)
       IN insp' = [by |-> "git_utils", head |-> head,
                   detached |-> is_detached_head,
                   current |-> IF current.ok /\ Truthy(current.out) THEN current.out[1] ELSE None,
                   available |-> get_available_branches,
                   remote |-> <<>>,
                   default |-> get_default_branch]
    /\ op' = "inspect" /\ pc' = "done" /\ ret' = TRUE /\ calls' = 1
    /\ UNCHANGED <<repoVars, arg, loc, log, pre>>

\* test_git_operations.test_branch_detection / test_branch_switching
GitOps_Inspect ==
    /\ op = "idle"
    /\ insp' = [by |-> "GitOperations", head |-> head,
                detached |-> GitOps_is_detached_head,
                current |-> GitOps_get_current_branch,
                available |-> GitOps_get_available_branches.local,
                remote |-> GitOps_get_available_branches.remote,
                default |-> GitOps_find_best_branch]
    /\ op' = "inspect" /\ pc' = "done" /\ ret' = TRUE /\ calls' = 1
    /\ UNCHANGED <<repoVars, arg, loc, log, pre>>

----------------------------------------------------------------------------
(* The resolver and the push operations on a repository with the branches    *)
(* main, master and feature.                                                 *)

MaxCalls == 2

Names == {main, master, feature}
Targets == {None} \cup Names
fileA == <<"a.txt">>
fileB == <<"b.txt">>
Files == {fileA, fileB}
FileArgs == {<<>>, <<fileA>>, <<fileA, fileB>>}

TipOf(L) == [n \in AllNames |-> IF n \in L THEN <<"L", n>> ELSE NoCommit]
RTipOf(R) == [r \in AllRefs |-> IF r \in R THEN <<"R", r>> ELSE NoCommit]
Heads(names) ==
    {OnBranch(n) : n \in names}
    \cup {[kind |-> k, name |-> None, at |-> DetachedCommit] : k \in {"detached", "rebase"}}

\* With no git or no repository there is nothing else to tell states apart by.
NoRepository ==
    /\ gitWorks = FALSE /\ seed = 1
    /\ tip = TipOf({}) /\ rtip = RTipOf({}) /\ head = OnBranch(main)
    /\ originHead = None /\ tracking = {} /\ worktree = {} /\ index = {}

\* The branches origin may have.
RemoteNames == {main, feature}

Init ==
    /\ \/ NoRepository
       \/ /\ gitWorks = TRUE /\ seed \in {1, 2}
          /\ \E L \in SUBSET Names : tip = TipOf(L)
          /\ \E R \in SUBSET RemoteNames : rtip = RTipOf({OriginRef(n) : n \in R})
          /\ head \in Heads(Names)
          /\ originHead \in {None} \cup Remote
          /\ tracking = {}
          /\ worktree \in SUBSET {fileB}
          /\ index \in SUBSET {fileA}
    /\ Idle

\* git_utils neither reads nor writes the index and the work tree: its operations
\* are called with both clean.
Clean == worktree = {} /\ index = {}

CallSwitch ==
    /\ op = "idle" /\ Clean
    /\ \E t \in Targets : Call("switch", [NoArg EXCEPT !.target = t], "sw_begin")
    /\ calls' = 1

CallPush ==
    /\ op = "idle" /\ Clean
    /\ \E t \in Targets, f \in BOOLEAN :
         Call("push", [NoArg EXCEPT !.target = t, !.force = f], "up_begin")
    /\ calls' = 1

GitOps_CallPush ==
    /\ op = "idle"
    /\ \E fs \in FileArgs : Call("GitOps.push", [NoArg EXCEPT !.files = fs], "op_begin")
    /\ calls' = 1

\* The resolver called again with the same argument.
CallAgain ==
    /\ pc = "done" /\ op = "switch" /\ calls < MaxCalls
    /\ Call(op, arg, "sw_begin")
    /\ calls' = calls + 1

Next ==
    \/ Inspect \/ GitOps_Inspect
    \/ CallSwitch \/ CallPush \/ GitOps_CallPush \/ CallAgain
    \/ sw_begin \/ sw_checkout \/ sw_available \/ sw_create \/ sw_alt
    \/ up_begin \/ up_current \/ up_push \/ up_retry
    \/ op_begin \/ op_find \/ op_create_main \/ op_ensure \/ op_switch
    \/ op_stage \/ op_diff \/ op_commit \/ op_push \/ op_retry

Spec == Init /\ [][Next]_vars

----------------------------------------------------------------------------
(* Properties.  They are read off the finished operation: its arguments, the *)
(* repository as the call found it (pre), the commands it issued (log), its  *)
(* result, and the repository as it left it.                                 *)

Done(o) == op = o /\ pc = "done"
WasLocal(b) == pre.tip[b] # NoCommit
WasRemote(b) == pre.rtip[OriginRef(b)] # NoCommit
PreLocal == {n \in AllNames : WasLocal(n)}
PreRemote == {n \in AllNames : WasRemote(n)}
PreHeadCommit == IF pre.head.kind = "branch" THEN pre.tip[pre.head.name] ELSE pre.head.at
Issued(c) == \E i \in 1..Len(log) : log[i].cmd = c
Accepted(c, b) == \E i \in 1..Len(log) : log[i] = Cmd(c, b, TRUE)
\* The commands that move HEAD or create a branch.
ChangeCmds == {"checkout", "checkout -b", "checkout -b origin", "fetch branch"}
IssuedChange == \E i \in 1..Len(log) : log[i].cmd \in ChangeCmds
\* switch_to_branch called directly, with a branch name.
SwitchedTo(b) == Done("switch") /\ arg.target = b /\ b # None

\* C1: switch_to_branch(t) for a local branch t whose checkout git accepts returns
\* True with HEAD on t, issues nothing but that checkout and leaves the local
\* branches as they were; called when HEAD is on t already (as a second call in
\* a row is) git accepts the checkout, and the call returns True and changes
\* neither the current branch nor the local branches.
C1_SwitchToLocalBranch ==
    \A t \in AllNames :
        /\ (SwitchedTo(t) /\ WasLocal(t) /\ log[1] = Cmd("checkout", t, TRUE)) =>
                /\ ret /\ head = OnBranch(t)
                /\ tip = pre.tip
                /\ Len(log) = 1
        /\ (SwitchedTo(t) /\ WasLocal(t) /\ pre.head = OnBranch(t)) =>
                /\ log = <<Cmd("checkout", t, TRUE)>>
                /\ ret /\ head = pre.head /\ tip = pre.tip

\* The second of two calls in a row for a local branch, returning True on it.
C1_Witness ==
    /\ SwitchedTo(feature) /\ calls = 2
    /\ WasLocal(feature) /\ pre.head = OnBranch(feature)
    /\ ret /\ head = OnBranch(feature) /\ tip = pre.tip

\* C2 (as stated): switch_to_branch(t) for a branch t absent locally and present
\* on origin, whenever the direct checkout fails (and git refuses no branch
\* creation), materialises a tracking branch t from origin/t and returns True on it.
C2_SwitchToRemoteBranch ==
    \A t \in AllNames :
        (/\ SwitchedTo(t) /\ ~WasLocal(t) /\ WasRemote(t)
         /\ log[1] = Cmd("checkout", t, FALSE)
         /\ \A i \in 1..Len(log) : log[i].cmd \in {"checkout -b", "checkout -b origin"} => log[i].ok) =>
            /\ ret /\ head = OnBranch(t)
            /\ tip[t] = pre.rtip[OriginRef(t)]
            /\ t \in tracking

PreBranches == PreLocal \cup PreRemote
PriorityDefaults ==
    IF originHead # None THEN {originHead}
    ELSE IF main \in PreBranches THEN {main}
    ELSE IF master \in PreBranches THEN {master}
    ELSE IF develop \in PreBranches THEN {develop}
    ELSE IF development \in PreBranches THEN {development}
    ELSE PreBranches
\* switch_to_branch() called directly, without a branch name, on a detached HEAD
\* in a repository that has a branch.
SwitchedOffDetached ==
    /\ Done("switch") /\ arg.target = None
    /\ pre.head.kind = "detached" /\ PreBranches # {}

C5_NothingToResolve ==
    /\ (Done("switch") /\ arg.target = None /\ PreBranches = {}) =>
            ~ret /\ ~IssuedChange
    /\ (op = "GitOps.push" /\ pre.head.kind # "branch" /\ PreBranches = {}) =>
            /\ ~IssuedChange
            /\ pc = "done" => ~ret

\* An inspector has run; the repository is still as pre records it.
Inspected == op = "inspect"
NoDuplicates(xs) == \A i, j \in 1..Len(xs) : xs[i] = xs[j] => i = j
\* An entry that names HEAD rather than a branch: HEAD, origin/HEAD, or git's
\* description of a HEAD that is on no branch.
IsHeadEntry(e) ==
    Contains(e, <<"HEAD">>) \/ Contains(e, <<"HEAD detached">>) \/ StartsWith(e, <<"(">>)

\* C6 (as stated): the default branch of get_default_branch() and of
\* GitOperations.find_best_branch() is what origin/HEAD points at, else the first
\* of main, master, develop, development that exists, else some existing branch,
\* else none.
C6_DefaultPriority ==
    Inspected =>
        IF originHead = None /\ PreBranches = {} THEN insp.default = None
        ELSE insp.default \in PriorityDefaults

\* C7 (as stated): the branch lists of get_available_branches(), in git_utils and
\* in GitOperations, have no duplicate, no HEAD entry and no name that still
\* carries the origin/ prefix.
C7_CleanBranchLists ==
    Inspected =>
        /\ NoDuplicates(insp.available) /\ NoDuplicates(insp.remote)
        /\ \A e \in Elems(insp.available) \cup Elems(insp.remote) :
              ~IsHeadEntry(e) /\ ~StartsWith(e, <<"origin", "/">>)

\* C8: once `git diff --cached --quiet` has reported that nothing is staged,
\* GitOperations.execute_git_push is over and has returned True, and it has
\* issued no commit and no push: the index is empty still and origin unchanged.
C8_NothingStagedIsSuccess ==
    (op = "GitOps.push" /\ Accepted("diff --cached --quiet", None)) =>
        /\ pc = "done" /\ ret
        /\ log[Len(log)].cmd = "diff --cached --quiet"
        /\ ~Issued("commit") /\ ~Issued("push") /\ ~Issued("push -u")
        /\ index = {} /\ rtip = pre.rtip

\* Only b.txt is changed, only a.txt is staged: there is nothing to commit.
C8_Witness ==
    /\ Done("GitOps.push") /\ arg.files = <<fileA>>
    /\ pre.worktree = {fileB} /\ pre.index = {}
    /\ Accepted("add", fileA) /\ Accepted("diff --cached --quiet", None)
    /\ ret /\ worktree = {fileB}

\* The pushes with an upstream-setting flag that the operation issued.
Retries == {i \in 1..Len(log) : log[i].cmd \in {"push --set-upstream", "push -u"}}
\* The first push was issued and failed.
FirstPushFailed == loc.first \in PushOutcomes \ {"pushed"}

\* C9 (as stated): in git_utils.execute_git_push and in
\* GitOperations.execute_git_push a first push that fails for want of an upstream
\* is retried once, and the result is the retry's; a first push that fails for
\* any other reason is not retried, and the result is failure.
C9_RetryOnlyForUpstream ==
    (op \in {"push", "GitOps.push"} /\ FirstPushFailed) =>
        IF loc.first = "no upstream"
        THEN pc = "done" => \E i \in Retries : Retries = {i} /\ ret = log[i].ok
        ELSE Retries = {} /\ (pc = "done" => ~ret)

\* C10 (as stated): is_detached_head(), in git_utils and in GitOperations, is true
\* exactly when `git branch --show-current` yields no branch name.
C10_DetachedIffNoCurrent ==
    Inspected => (insp.detached <=> insp.current = None)

----------------------------------------------------------------------------
(* One call of a command runner, with the git process as the environment: it *)
(* cannot be spawned, or it exits after `lifetime` seconds with a status and *)
(* its output, or it never exits.  Time is counted in seconds while the      *)
(* runner waits; the model watches a process for MaxWait seconds.            *)

timeout == 30
MaxWait == 32
ExitStatuses == {0, 1, 128}
Runners == {"run_git_command", "GitOps.run_git_command"}
WithTimeout == op = "GitOps.run_git_command"

\* What the process prints: on stdout when it exits with 0, on stderr otherwise.
Exited(status) ==
    IF status = 0 THEN [ok |-> TRUE, stdout |-> <<<<" ", " ", "main">>>>, stderr |-> <<>>]
    ELSE [ok |-> FALSE, stdout |-> <<>>, stderr |-> <<<<"fatal: ", "git failed">>>>]

Processes ==
    {[spawns |-> FALSE, hangs |-> FALSE, lifetime |-> 0, status |-> 0, elapsed |-> 0]}
    \cup {[spawns |-> TRUE, hangs |-> TRUE, lifetime |-> 0, status |-> 0, elapsed |-> 0]}
    \cup {[spawns |-> TRUE, hangs |-> FALSE, lifetime |-> d, status |-> st, elapsed |-> 0] :
            d \in 0..MaxWait, st \in ExitStatuses}

InitRun ==
    /\ NoRepository
    /\ op \in Runners /\ pc = "call"
    /\ arg \in {[capture_output |-> c] : c \in BOOLEAN}
    /\ (op = "run_git_command" => arg.capture_output)     \* line 28: always True
    /\ loc \in Processes
    /\ ret = [ok |-> FALSE, out |-> <<>>]
    /\ log = <<>> /\ calls = 1 /\ insp = NoInsp /\ pre = Snapshot

\* `except Exception as e`: (False, str(e)) / (False, f"Git command failed: {str(e)}")
Caught(e) ==
    IF WithTimeout THEN [ok |-> FALSE, out |-> <<<<"Git command failed: ", e>>>>]
    ELSE [ok |-> FALSE, out |-> <<<<e>>>>]

\* subprocess.run(...): the process is started, or the call raises
run_spawn ==
    /\ pc = "call"
    /\ IF loc.spawns THEN pc' = "wait" /\ ret' = ret
       ELSE pc' = "done" /\ ret' = Caught("No such file or directory: 'git'")
    /\ UNCHANGED <<repoVars, op, arg, loc, log, pre, calls, insp>>

\* one more second of waiting for the process
run_wait ==
    /\ pc = "wait"
    /\ loc.hangs \/ loc.elapsed < loc.lifetime
    /\ WithTimeout => loc.elapsed < timeout
    /\ loc.elapsed < MaxWait
    /\ loc' = [loc EXCEPT !.elapsed = loc.elapsed + 1]
    /\ UNCHANGED <<repoVars, op, pc, arg, ret, log, pre, calls, insp>>

\* the process has exited: the result is made of its status and output; without
\* capture_output, stdout and stderr are None and .strip() raises
run_exit ==
    /\ pc = "wait"
    /\ ~loc.hangs /\ loc.elapsed = loc.lifetime
    /\ WithTimeout => loc.elapsed < timeout
    /\ pc' = "done"
    /\ ret' = IF ~arg.capture_output
              THEN Caught("'NoneType' object has no attribute 'strip'")
              ELSE IF WithTimeout THEN GitOps_run_git_command(Exited(loc.status))
              ELSE run_git_command(Exited(loc.status))
    /\ UNCHANGED <<repoVars, op, arg, loc, log, pre, calls, insp>>

\* `except subprocess.TimeoutExpired`
run_timeout ==
    /\ pc = "wait"
    /\ WithTimeout /\ loc.elapsed = timeout
    /\ pc' = "done"
    /\ ret' = [ok |-> FALSE, out |-> <<<<"Git command timed out">>>>]
    /\ UNCHANGED <<repoVars, op, arg, loc, log, pre, calls, insp>>

NextRun == run_spawn \/ run_wait \/ run_exit \/ run_timeout

SpecRun == InitRun /\ [][NextRun]_vars

\* The process has exited with status 0 within the time the runner waited.
ExitedWithZero ==
    loc.spawns /\ ~loc.hangs /\ loc.elapsed = loc.lifetime /\ loc.status = 0

\* C11 (as stated): a runner call returns a pair (succeeded, output), succeeded
\* being true exactly when the process exited with status 0, a timeout or a spawn
\* failure giving succeeded = false with a message; and no call waits for the
\* process longer than the fixed timeout.
C11_RunnerContract ==
    op \in Runners =>
        /\ pc = "wait" => loc.elapsed <= timeout
        /\ pc = "done" =>
            /\ ret.ok \in BOOLEAN
            /\ ret.ok <=> ExitedWithZero
            /\ (~loc.spawns \/ loc.elapsed = timeout) => (~ret.ok /\ ret.out # <<>>)

----------------------------------------------------------------------------
(* Properties of the push operations *)

Pushing == op \in {"push", "GitOps.push"}
\* The commands that leave HEAD on a branch when git accepts them.
AttachCmds == {"checkout", "checkout -b", "checkout -b origin"}
Attaches == {i \in 1..Len(log) : log[i].cmd \in AttachCmds /\ log[i].ok}
StageCmds == {"add"}
CommitCmds == {"commit"}
PushCmds == {"push", "push --force", "push --set-upstream", "push -u"}
\* The steps of a push operation that come after the branch resolution.
AfterResolution ==
    {"up_current", "up_push", "up_retry",
     "op_stage", "op_diff", "op_commit", "op_push", "op_retry"}

\* In GitOperations, step by step: when create_new_branch, ensure_branch_available
\* or switch_to_branch fails, the operation is over, with failure and nothing staged.
C12_FailedStepAborts ==
    (/\ op = "GitOps.push" /\ log # <<>>
     /\ log[Len(log)].cmd \in AttachCmds \cup {"fetch branch"} /\ ~log[Len(log)].ok) =>
        /\ pc = "done" /\ ~ret
        /\ \A i \in 1..Len(log) : log[i].cmd \notin StageCmds \cup CommitCmds \cup PushCmds

\* C12: a push that starts on a detached HEAD and whose branch resolution does
\* not get HEAD onto a branch issues no staging, commit or push command: it goes
\* no further than the resolution, returns failure and leaves HEAD detached.
C12_FailedResolutionAborts ==
    /\ C12_FailedStepAborts
    /\ (Pushing /\ pre.head.kind = "detached" /\ Attaches = {}) =>
            /\ \A i \in 1..Len(log) : log[i].cmd \notin StageCmds \cup CommitCmds \cup PushCmds
            /\ pc \notin AfterResolution
            /\ pc = "done" => ~ret
            /\ head.kind = "detached" /\ index = pre.index

\* Staged changes on a detached HEAD; git refuses the checkout of main.
C12_Witness ==
    /\ Done("GitOps.push") /\ pre.head.kind = "detached" /\ pre.index = {fileA}
    /\ log[Len(log)] = Cmd("checkout", main, FALSE)
    /\ ~ret /\ index = {fileA} /\ head = pre.head

\* The place of a command in the protocol of GitOperations.execute_git_push.
Rank(c) ==
    CASE c = "add" -> 1
      [] c = "diff --cached --quiet" -> 2
      [] c = "commit" -> 3
      [] c = "push" -> 4
      [] c = "push -u" -> 5
      [] OTHER -> 0
Positions(cmds) == {i \in 1..Len(log) : log[i].cmd \in cmds}
\* What is to be staged: each file given, or "." when none is.
ToStage == IF arg.files = <<>> THEN <<<<".">>>> ELSE arg.files

\* C13: in GitOperations.execute_git_push the commands come in the order branch
\* resolution, add, staged-check, commit, push, retry; the files are staged in
\* the order given; a failed add, and a failed commit, is the last command and
\* ends the operation with failure; the staged-check comes after every add has
\* succeeded, a commit only after a staged-check that found changes, a push only
\* after a successful commit.
C13_FailFastInOrder ==
    op = "GitOps.push" =>
        /\ \A i, j \in 1..Len(log) : i < j => Rank(log[i].cmd) <= Rank(log[j].cmd)
        /\ \A i \in Positions({"add", "commit"}) :
              ~log[i].ok => (i = Len(log) /\ pc = "done" /\ ~ret)
        /\ LET adds == SelectSeq(log, LAMBDA e : e.cmd = "add")
           IN /\ Len(adds) <= Len(ToStage)
              /\ \A k \in 1..Len(adds) : adds[k].a = ToStage[k]
              /\ Issued("diff --cached --quiet") =>
                    (Len(adds) = Len(ToStage) /\ \A k \in 1..Len(adds) : adds[k].ok)
        /\ Issued("commit") => \E i \in Positions({"diff --cached --quiet"}) : ~log[i].ok
        /\ Issued("push") => Accepted("commit", None)
        /\ \A c \in {"diff --cached --quiet", "commit", "push", "push -u"} :
              Cardinality(Positions({c})) <= 1

\* The first of two files cannot be staged: the second is not touched.
C13_Witness ==
    /\ Done("GitOps.push") /\ arg.files = <<fileA, fileB>>
    /\ log[Len(log)] = Cmd("add", fileA, FALSE)
    /\ ~ret /\ worktree = pre.worktree /\ fileB \in worktree

----------------------------------------------------------------------------
(* The fallback of switch_to_branch *)

\* The commands of the operation that try to put HEAD on a branch, in order.
Attempts == SelectSeq(log, LAMBDA e : e.cmd \in AttachCmds)
\* switch_to_branch(t) is over, its direct checkout failed, and no branch t was
\* made thereafter: t was among the available branches, or making it failed.
DirectSwitchFailed(t) ==
    /\ SwitchedTo(t) /\ log[1] = Cmd("checkout", t, FALSE)
    /\ ~Accepted("checkout -b", t) /\ ~Accepted("checkout -b origin", t)
\* The attempts made for the target itself: the checkout, and the creation if any.
OwnAttempts(t) == IF InList(t, loc.available) THEN 1 ELSE 2

\* C14 (as stated): when the direct checkout of the target has failed and the
\* target was among the available branches or could not be made, the alternatives
\* are tried: main then master (master then main for a target that is one of
\* them), each checked out or made, up to the first that succeeds, whose success
\* is the result.
C14_AlternativesAreTried ==
    \A t \in AllNames :
        DirectSwitchFailed(t) =>
            LET n == OwnAttempts(t)
                alts == alternatives(t)
            IN /\ Len(Attempts) > n
               /\ Attempts[n + 1].a = alts[1]
               /\ ~Attempts[n + 1].ok => (Len(Attempts) > n + 1 /\ Attempts[n + 2].a = alts[2])
               /\ ret <=> Attempts[Len(Attempts)].ok

----------------------------------------------------------------------------
(* What a failed push operation leaves behind *)

\* Every command the two modules issue; none of them undoes a commit or a staging.
IssuedCmds ==
    {"status", "branch", "branch -r", "branch --show-current", "branch --format",
     "branch -r --format", "symbolic-ref", "show-ref", "fetch", "fetch branch",
     "add", "diff --cached --quiet", "commit"} \cup AttachCmds \cup PushCmds
\* The files `git add` was told to stage and did.
Staged ==
    IF Accepted("add", <<".">>) THEN pre.worktree
    ELSE {f \in pre.worktree : Accepted("add", f)}

\* C15: GitOperations.execute_git_push takes nothing back.  When the commit has
\* succeeded and the push and its retry have failed, the result is failure, the
\* new commit is where HEAD is and origin is as it was; as long as no commit has
\* succeeded, whatever was staged before or by the operation is staged still;
\* and no command other than those of the protocol is ever issued.
C15_NoRollback ==
    op = "GitOps.push" =>
        /\ \A i \in 1..Len(log) : log[i].cmd \in IssuedCmds
        /\ (Accepted("commit", None) /\ pc = "done" /\ ~ret) =>
              /\ log[Len(log)] = Cmd("push -u", loc.cur, FALSE)
              /\ HeadCommit = NewCommit(calls) /\ index = {}
              /\ rtip = pre.rtip
        /\ ~Accepted("commit", None) =>
              /\ index = pre.index \cup Staged
              /\ worktree = pre.worktree \ Staged

\* Committed, then the push and its retry are both rejected.
C15_Witness ==
    /\ Done("GitOps.push") /\ ~ret /\ pre.index = {fileA}
    /\ Accepted("commit", None)
    /\ \E b \in AllNames : /\ head = OnBranch(b) /\ tip[b] = NewCommit(1)
                           /\ log[Len(log)] = Cmd("push -u", b, FALSE)
                           /\ log[Len(log) - 1] = Cmd("push", b, FALSE)
    /\ rtip = pre.rtip /\ index = {}

----------------------------------------------------------------------------
(* The default branch asked for several times, by the same process or by a   *)
(* new one (a new run of the script, with a hash seed of its own), of a      *)
(* repository that does not change.  log holds what each call returned.      *)

MaxAsks == 2
AskNames == {main, develop, feature, hotfix}
AskRemoteNames == {main, feature, hotfix}

InitAsk ==
    /\ gitWorks = TRUE /\ seed \in {1, 2}
    /\ \E L \in SUBSET AskNames : tip = TipOf(L)
    /\ \E R \in SUBSET AskRemoteNames : rtip = RTipOf({OriginRef(n) : n \in R})
    /\ head \in Heads({main, feature})
    /\ originHead = None
    /\ tracking = {} /\ worktree = {} /\ index = {}
    /\ Idle

Answer(by, r) == [by |-> by, seed |-> seed, default |-> r]

\* get_default_branch()
AskDefault ==
    /\ Len(log) < MaxAsks
    /\ log' = Append(log, Answer("git_utils", get_default_branch))
    /\ op' = "default" /\ pc' = "done" /\ calls' = Len(log) + 1
    /\ UNCHANGED <<repoVars, arg, loc, ret, pre, insp>>

\* GitOperations().find_best_branch()
GitOps_AskBest ==
    /\ Len(log) < MaxAsks
    /\ log' = Append(log, Answer("GitOperations", GitOps_find_best_branch))
    /\ op' = "default" /\ pc' = "done" /\ calls' = Len(log) + 1
    /\ UNCHANGED <<repoVars, arg, loc, ret, pre, insp>>

\* The script is started anew: str hashes are salted per process.
NewProcess ==
    /\ seed' \in {1, 2} \ {seed}
    /\ UNCHANGED <<gitWorks, tip, rtip, head, originHead, tracking, worktree, index,
                   op, pc, arg, loc, ret, log, pre, calls, insp>>

NextAsk == AskDefault \/ GitOps_AskBest \/ NewProcess

SpecAsk == InitAsk /\ [][NextAsk]_vars

\* C16 (as stated): of an unchanged repository, two calls of get_default_branch()
\* return the same branch, and so do two calls of find_best_branch().
C16_SameDefaultEachTime ==
    op = "default" =>
        \A i, j \in 1..Len(log) : log[i].by = log[j].by => log[i].default = log[j].default

----------------------------------------------------------------------------
(* GitOperations.execute_git_push while another process works in the same    *)
(* repository: once the operation has settled on its branch, the other       *)
(* process may check out any other local branch between two of its commands. *)

Settled == {"op_stage", "op_diff", "op_commit", "op_push", "op_retry"}

ExternalCheckout ==
    /\ op = "GitOps.push" /\ pc \in Settled
    /\ \E b \in Local \ {head.name} : head' = OnBranch(b)
    /\ UNCHANGED <<gitWorks, seed, tip, rtip, originHead, tracking, worktree, index,
                   op, pc, arg, loc, ret, log, pre, calls, insp>>

NextRace ==
    \/ GitOps_CallPush \/ ExternalCheckout
    \/ op_begin \/ op_find \/ op_create_main \/ op_ensure \/ op_switch
    \/ op_stage \/ op_diff \/ op_commit \/ op_push \/ op_retry

SpecRace == Init /\ [][NextRace]_vars

\* The branch a new commit of the operation is on.
CommittedOn == {b \in AllNames : tip[b] = NewCommit(calls)}

\* C17: GitOperations.execute_git_push reads the current branch once, when it
\* starts, and never again: whatever another process checks out in the
\* meantime, its pushes name the branch it read (or resolved) then, and its
\* commit goes to whichever branch HEAD is on when `git commit` runs.
C17_PushesTheBranchFirstRead ==
    op = "GitOps.push" =>
        /\ Cardinality(Positions({"branch --show-current"})) <= 1
        /\ \A i \in Positions(PushCmds) : log[i].a = loc.cur
        /\ (pre.head.kind = "branch" /\ gitWorks /\ pc # "op_begin") => loc.cur = pre.head.name
        /\ (pre.head.kind # "branch" /\ pc \in Settled) => loc.cur = loc.target

\* The commit was made on master, the push named main and was accepted: origin
\* has not got the commit.
C17_Witness ==
    /\ Done("GitOps.push") /\ ret
    /\ pre.head = OnBranch(main) /\ loc.cur = main
    /\ CommittedOn = {master}
    /\ log[Len(log)] = Cmd("push", main, TRUE)
    /\ rtip[OriginRef(main)] = tip[main] /\ rtip[OriginRef(master)] # tip[master]

----------------------------------------------------------------------------
(* switch_to_branch for a branch that does not exist *)

\* switch_to_branch(t) is over, for a t that was neither local nor on origin.
SwitchedToUnknown(t) == SwitchedTo(t) /\ ~WasLocal(t) /\ ~WasRemote(t)
FailedAttemptOn(b) == \E i \in 1..Len(Attempts) : Attempts[i].a = b /\ ~Attempts[i].ok

----------------------------------------------------------------------------
(* The branch that is pushed *)

\* C19: with nothing else changing the repository, a push operation is about to
\* push, and has pushed, only the branch HEAD is on: every push command names
\* the current branch, and none is issued on a detached HEAD.
C19_PushesCurrentBranch ==
    Pushing =>
        /\ pc \in {"up_push", "up_retry", "op_push", "op_retry"} =>
              (Attached /\ loc.cur = head.name)
        /\ \A i \in Positions(PushCmds) : Attached /\ log[i].a = head.name

\* git_utils.execute_git_push called on a detached HEAD: it switches to main
\* and pushes main.
C19_Witness ==
    /\ Done("push") /\ pre.head.kind = "detached" /\ ret
    /\ head = OnBranch(main)
    /\ log[Len(log)] = Cmd("push", main, TRUE)
    /\ rtip[OriginRef(main)] = tip[main]

----------------------------------------------------------------------------
(* The branch chosen, ensured and switched to by GitOperations *)

\* C20: when ensure_branch_available(b) has returned True, b is a local branch;
\* and the branch find_best_branch returned, once ensured, is switched to with
\* success, HEAD being on it afterwards.
C20_EnsuredBranchIsSwitchedTo ==
    op = "GitOps.push" =>
        /\ pc = "op_switch" => loc.target \in Local
        /\ \A i \in 1..Len(log) : log[i].cmd = "checkout" => log[i].ok
        /\ (pc = "op_stage" /\ Issued("checkout")) => head = OnBranch(loc.target)

----------------------------------------------------------------------------
(* A push from a branch *)

StartedOnBranch == gitWorks /\ pre.head.kind = "branch"

\* C21: a push operation that starts with HEAD on a branch issues no checkout
\* and creates no branch, and HEAD stays on that branch, whatever target branch
\* the caller gave.
C21_PushStaysOnBranch ==
    (Pushing /\ StartedOnBranch) =>
        /\ \A i \in 1..Len(log) : log[i].cmd \notin AttachCmds /\ log[i].cmd # "fetch branch"
        /\ head = pre.head

\* git_utils.execute_git_push("feature") called with HEAD on main, both local:
\* main is pushed, HEAD is still on main.
C21_Witness ==
    /\ Done("push") /\ StartedOnBranch /\ ret
    /\ arg.target = feature /\ WasLocal(feature) /\ pre.head = OnBranch(main)
    /\ head = OnBranch(main)
    /\ log[Len(log)].a = main /\ log[Len(log)].cmd \in PushCmds

C21_GitOps_Witness ==
    /\ Done("GitOps.push") /\ StartedOnBranch /\ ret
    /\ pre.head = OnBranch(feature) /\ head = OnBranch(feature)
    /\ Accepted("push", feature)

----------------------------------------------------------------------------
(* What the two results of switch_to_branch mean *)

\* switch_to_branch has returned True: to its caller, or to execute_git_push, which
\* is about to read the current branch.
SwitchedWithSuccess ==
    \/ Done("switch") /\ ret
    \/ op = "push" /\ pc = "up_current" /\ Issued("checkout")
    \/ op = "push" /\ pc = "up_current" /\ Issued("show-ref")

\* C22: when git_utils.switch_to_branch has returned True, its last command is an
\* accepted checkout or branch creation, HEAD is on the branch of that command,
\* and that branch is the target (asked for, or the default) or main or master.
C22_TrueMeansOnABranch ==
    SwitchedWithSuccess =>
        LET e == log[Len(log)]
        IN /\ e.cmd \in AttachCmds /\ e.ok
           /\ Attached /\ head = OnBranch(e.a)
           /\ e.a \in {loc.target, main, master}
           /\ e.a # loc.target => Cmd("checkout", loc.target, FALSE) \in Elems(log)

\* switch_to_branch("feature") returned True with HEAD on main, not on feature.
C22_Witness ==
    /\ Done("switch") /\ ret /\ arg.target = feature
    /\ pre.head.kind = "detached"
    /\ head = OnBranch(main)


\* switch_to_branch has returned False: to its caller, or to execute_git_push,
\* which then returns False without a push command.
SwitchedWithFailure ==
    \/ Done("switch") /\ ~ret
    \/ Done("push") /\ ~ret /\ Positions(PushCmds) = {} /\ Issued("status")
       /\ log[Len(log)].cmd # "branch --show-current" /\ log[Len(log)].cmd # "status"

\* C23: when git_utils.switch_to_branch has returned False, every checkout and
\* every branch creation it issued was refused, and HEAD, the current branch and
\* the local branches are what they were before the call.
C23_FalseMeansUnchanged ==
    SwitchedWithFailure =>
        /\ Attaches = {}
        /\ head = pre.head
        /\ tip = pre.tip
        /\ Local = PreLocal

\* switch_to_branch("feature"), feature unknown, HEAD detached: the checkout, the
\* creation and both alternatives were refused.
C23_Witness ==
    /\ Done("switch") /\ ~ret /\ arg.target = feature
    /\ pre.head.kind = "detached" /\ ~WasLocal(feature) /\ ~WasRemote(feature)
    /\ Len(Attempts) = 4
    /\ head = pre.head

----------------------------------------------------------------------------
(* The push commands of git_utils.execute_git_push *)

Pushes == SelectSeq(log, LAMBDA e : e.cmd \in PushCmds)

\* C24: in git_utils.execute_git_push the first push command carries --force
\* exactly when force is true, and the retry that sets the upstream, the only
\* other push command, never carries it.
C24_ForceOnFirstPushOnly ==
    op = "push" =>
        /\ Len(Pushes) <= 2
        /\ Len(Pushes) >= 1 =>
              Pushes[1].cmd = (IF arg.force THEN "push --force" ELSE "push")
        /\ Len(Pushes) = 2 => Pushes[2].cmd = "push --set-upstream"
        /\ pc \in {"up_retry", "done"} /\ ret => Len(Pushes) >= 1

\* A forced push of main that git refused for want of an upstream, and the retry.
C24_Witness ==
    /\ Done("push") /\ arg.force
    /\ Len(Pushes) = 2
    /\ Pushes[1] = Cmd("push --force", main, FALSE)
    /\ Pushes[2].cmd = "push --set-upstream"

----------------------------------------------------------------------------
(* Termination.  The code is sequential and synchronous: once called, an      *)
(* operation goes from each command to its next statement as soon as the      *)
(* command returns.                                                           *)

\* The program points from which the code runs the inspectors (status, branch,
\* branch -r, symbolic-ref, fetch) before anything else.  The step from each is
\* enabled whatever the inspectors print.
Inspecting == {"sw_begin", "sw_available", "up_begin", "op_find", "op_ensure"}

\* That much of those steps that decides whether one is enabled.  It stands
\* first in Step, so that whether Step is enabled at such a point is decided
\* without running the inspectors; it is no step of Next by itself.
Proceeds == pc \in Inspecting /\ pc' = "done" /\ UNCHANGED <<repoVars, op, arg, loc, ret, log, pre, calls, insp>>

\* One step of the operation that is running.
Step ==
    \/ Proceeds
    \/ sw_begin \/ sw_checkout \/ sw_available \/ sw_create \/ sw_alt
    \/ up_begin \/ up_current \/ up_push \/ up_retry
    \/ op_begin \/ op_find \/ op_create_main \/ op_ensure \/ op_switch
    \/ op_stage \/ op_diff \/ op_commit \/ op_push \/ op_retry

\* Every command returns, so the running operation takes its next step.
SpecReturns == Init /\ [][Next]_vars /\ WF_vars(Step)

Running == op \in {"switch", "push", "GitOps.push"} /\ pc # "done"
Finished == op \in {"switch", "push", "GitOps.push"} /\ pc = "done" /\ ret \in BOOLEAN

\* The same command on the same branch, issued twice in one operation.
Repeated(i, j) == i < j /\ Attempts[i].cmd = Attempts[j].cmd /\ Attempts[i].a = Attempts[j].a
Repeats == {p \in (1..Len(Attempts)) \X (1..Len(Attempts)) : Repeated(p[1], p[2])}

FewCommands ==
    /\ Len(Pushes) <= 2
    /\ op \in {"switch", "push"} => Len(Attempts) <= 4
    /\ op = "GitOps.push" => Len(Attempts) <= 1
    /\ op = "switch" => Len(log) <= 9
    /\ op = "push" => Len(log) <= 15
    /\ op = "GitOps.push" => Len(log) <= 12 + (IF arg.files = <<>> THEN 1 ELSE Len(arg.files))

\* The checkouts and creations that switch_to_branch issued twice are none.
EachBranchOnce == Repeats = {}

\* They are at most one: the creation of its target, when the target is main or
\* master and so is one of its own alternatives.
TargetAtMostTwice ==
    /\ Cardinality(Repeats) <= 1
    /\ \A p \in Repeats :
          /\ Attempts[p[1]].a = loc.target /\ loc.target \in {main, master}
          /\ Attempts[p[1]].cmd \in {"checkout -b", "checkout -b origin"}
          /\ p[1] = 2

\* C25, as stated: every operation called ends with a result; it issues few git
\* commands, at most two pushes, and no checkout or creation of the same branch
\* twice.
C25_TerminatesEachBranchOnce ==
    /\ Running ~> Finished
    /\ [](FewCommands /\ EachBranchOnce)

\* C25, amended: every operation called ends with a result; it issues few git
\* commands, at most two pushes, and no checkout or creation of the same branch
\* twice but the creation of a target main or master, tried again as one of the
\* alternatives.
C25_TerminatesTargetAtMostTwice ==
    /\ Running ~> Finished
    /\ [](FewCommands /\ TargetAtMostTwice)

\* switch_to_branch("main"), main unknown: `git checkout -b main` was refused
\* twice, master in between, and the call returned False.
C25_Witness ==
    /\ Done("switch") /\ ~ret /\ arg.target = main
    /\ Len(Attempts) = 4
    /\ Attempts[2] = Cmd("checkout -b", main, FALSE)
    /\ Attempts[3].a = master
    /\ Attempts[4] = Cmd("checkout -b", main, FALSE)

====
